---- MODULE Spec2Model ----
(***************************************************************************)
(* Winternitz-Lamport-Diffie one-time signatures (package wots).           *)
(*                                                                         *)
(* The repository holds two API shapes of the package:                     *)
(*   "wots"   : src/wots.go            (PrivateKey is a byte slice, Sign   *)
(*              returns an error, the key bytes are left alone);           *)
(*   "legacy" : src/unnamed/part_002   (PrivateKey is a struct held by     *)
(*              pointer, Sign zeroes k.B and sets it to nil).              *)
(* Both are modelled; the variable api says which one a behaviour runs.    *)
(* Byte strings are sequences of numbers in 0..255.                        *)
(***************************************************************************)
EXTENDS Integers, Sequences, FiniteSets, TLC

(***************************************************************************)
(* Bytes and slices                                                        *)
(***************************************************************************)
Byte == 0 .. 255

RECURSIVE Xor(_, _)
\* m ^ r[i] on bytes.
Xor(a, b) ==
  IF a = 0 THEN b
  ELSE IF b = 0 THEN a
  ELSE (((a % 2) + (b % 2)) % 2) + 2 * Xor(a \div 2, b \div 2)

\* make([]byte, n): n zero bytes.
Zeros(n) == [i \in 1 .. n |-> 0]

\* s[lo:hi] of a slice whose capacity is its length (0-based, hi exclusive).
Slice(s, lo, hi) == SubSeq(s, lo + 1, hi)

\* A call's outcome: a value, an error value, a run-time panic, or no return.
Ok(v)     == [st |-> "ok", v |-> v]
Panic     == [st |-> "panic", v |-> <<>>]
Hang      == [st |-> "hang", v |-> <<>>]

(***************************************************************************)
(* The hash primitive (hash.Hash: Reset, Write, Sum, Size).  The package   *)
(* takes it from its caller; here it is one fixed family, HashSum(size,    *)
(* input) being the Sum of a hash of output size `size` after Reset and    *)
(* Writes that add up to `input`.  On an input of exactly `size` bytes     *)
(* (the blocks of a hash chain) it is the successor of the block read as   *)
(* a little-endian counter: a permutation with one cycle of 256^size       *)
(* blocks, so a chain of at most 256 steps never meets itself when         *)
(* size >= 2.  On every other input it is a two-accumulator polynomial.    *)
(***************************************************************************)
ModA == 65521
ModB == 65519

RECURSIVE Increment(_, _)
Increment(block, i) ==
  IF i > Len(block) THEN block
  ELSE IF block[i] < 255 THEN [block EXCEPT ![i] = block[i] + 1]
  ELSE Increment([block EXCEPT ![i] = 0], i + 1)

Min(a, b) == IF a < b THEN a ELSE b

\* Loops are evaluated in runs of 16 steps, which keeps the evaluation
\* depth of a loop of n steps near n / 16 + 16: the run that starts at
\* step i of n ends at step RunEnd(i, n).
RunEnd(i, n) == Min(i + 15, n)

RECURSIVE AbsorbRun(_, _, _, _)
\* The accumulators ab after input[i .. to] is written.
AbsorbRun(ab, input, i, to) ==
  IF i > to THEN ab
  ELSE AbsorbRun(<<(ab[1] * 257 + input[i] + 1) % ModA,
                   (ab[2] * 263 + input[i] + 7) % ModB>>, input, i + 1, to)

RECURSIVE Absorb(_, _, _)
Absorb(ab, input, i) ==
  IF i > Len(input) THEN ab
  ELSE LET next == AbsorbRun(ab, input, i, RunEnd(i, Len(input)))
       IN  IF next[1] >= 0 THEN Absorb(next, input, i + 16) ELSE ab

Squeeze(ab, size) ==
  [j \in 1 .. size |->
     CASE j = 1 -> ab[1] % 256
       [] j = 2 -> ab[1] \div 256
       [] j = 3 -> ab[2] % 256
       [] j = 4 -> ab[2] \div 256
       [] OTHER -> (ab[1] * j + ab[2] * (j - 3) + j) % 256]

HashSum(size, input) ==
  IF Len(input) = size THEN Increment(input, 1)
  ELSE Squeeze(Absorb(<<1, 2>>, input, 1), size)

(***************************************************************************)
(* hashBlock (src/wots.go:90-98, the same in part_002:67-75)               *)
(***************************************************************************)
RECURSIVE hashBlockRun(_, _, _, _)
\* out after the loop's steps i .. to - 1: h.Reset(); h.Write(out);
\* out = h.Sum(out[:0]).
hashBlockRun(size, out, i, to) ==
  IF i < to THEN hashBlockRun(size, HashSum(size, out), i + 1, to) ELSE out

RECURSIVE hashBlockLoop(_, _, _, _)
hashBlockLoop(size, out, i, times) ==
  IF i < times
  THEN LET next == hashBlockRun(size, out, i, RunEnd(i + 1, times))
       IN  IF Len(next) >= 0 THEN hashBlockLoop(size, next, i + 16, times) ELSE out
  ELSE out

\* in hashed `times` times by a hash of output size `size`; a copy of in
\* when times is 0.
hashBlock(size, in, times) == hashBlockLoop(size, in, 0, times)

(***************************************************************************)
(* messageDigest (src/wots.go:133-171, the same in part_002:103-141)       *)
(***************************************************************************)
XorBlock(block, r) == [i \in 1 .. Len(block) |-> Xor(block[i], r[i])]

RECURSIVE fullBlocks(_, _)
\* The first loop: every full len(r)-byte block of msg, XORed with r.
fullBlocks(r, msg) ==
  IF Len(msg) >= Len(r)
  THEN XorBlock(Slice(msg, 0, Len(r)), r) \o fullBlocks(r, Slice(msg, Len(r), Len(msg)))
  ELSE <<>>

\* What is left of msg after the first loop.
msgRest(r, msg) == Slice(msg, (Len(msg) \div Len(r)) * Len(r), Len(msg))

\* tmp after it is zeroed, filled with the rest of msg, marked with 0x80
\* and XORed with r.
paddedBlock(r, rest) ==
  XorBlock([i \in 1 .. Len(r) |->
              IF i <= Len(rest) THEN rest[i]
              ELSE IF i = Len(rest) + 1 THEN 128 ELSE 0], r)

\* uint8(rlen >> 8), uint8(rlen)
lengthIndicator(rlen) == <<(rlen \div 256) % 256, rlen % 256>>

\* digestInput without the bytes of msg after its last full block.
digestInputNoRest(r, msg) ==
  r \o fullBlocks(r, msg) \o r \o <<(Len(r) \div 256) % 256, Len(r) % 256>>

\* digestInput with no padded block after a message that ends on a block
\* boundary.
digestInputNoPadOnFull(r, msg) ==
  r \o fullBlocks(r, msg)
    \o (IF Len(msg) > 0 /\ Len(msg) % Len(r) = 0 THEN <<>> ELSE paddedBlock(r, msgRest(r, msg)))
    \o lengthIndicator(Len(r))

\* Everything written to h before h.Sum, in order.
digestInput(r, msg) ==
  r \o fullBlocks(r, msg) \o paddedBlock(r, msgRest(r, msg)) \o lengthIndicator(Len(r))

RECURSIVE checksumRunPlain(_, _, _, _)
\* checksumRun adding the bytes themselves: sum += uint16(v).
checksumRunPlain(d, i, to, sum) ==
  IF i > to THEN sum
  ELSE checksumRunPlain(d, i + 1, to, (sum + d[i]) % 65536)

RECURSIVE checksumRun(_, _, _, _)
\* var sum uint16; sum += 256 - uint16(v), for d[i .. to]
checksumRun(d, i, to, sum) ==
  IF i > to THEN sum
  ELSE checksumRun(d, i + 1, to, (sum + 256 - d[i]) % 65536)

RECURSIVE checksumLoop(_, _, _)
checksumLoop(d, i, sum) ==
  IF i > Len(d) THEN sum
  ELSE LET next == checksumRun(d, i, RunEnd(i, Len(d)), sum)
       IN  IF next >= 0 THEN checksumLoop(d, i + 16, next) ELSE sum

checksum(d) == checksumLoop(d, 1, 0)

\* append(d, uint8(sum>>8), uint8(sum))
withChecksum(d) == d \o <<(checksum(d) \div 256) % 256, checksum(d) % 256>>

\* messageDigest(h, r, msg) for a hash h of output size `size`.  With an
\* empty r the first loop never ends; with a one-byte r the write of
\* tmp[1] is out of range.
messageDigest(size, r, msg) ==
  IF Len(r) = 0 THEN Hang
  ELSE IF Len(r) < 2 THEN Panic
  ELSE Ok(withChecksum(HashSum(size, digestInput(r, msg))))

(***************************************************************************)
(* Scheme (src/wots.go:34-80; part_002:36-58 has blockSize alone, which    *)
(* is both sizes there)                                                    *)
(***************************************************************************)
PrivateKeySize(ds, bs) == (ds + 2) * bs

\* pubkeySize is h().Size(), as digestSize is.
PublicKeySize(ds) == ds

SignatureSize(ds, bs) == (ds + 2) * bs + ds

Err(kind) == [st |-> kind, v |-> <<>>]

(***************************************************************************)
(* PublicKeyFromPrivate (src/wots.go:118-130)                              *)
(***************************************************************************)
\* Segment i (from 0) of a buffer of bs-byte segments.
Segment(buf, bs, i) == Slice(buf, i * bs, (i + 1) * bs)

\* The appends of a loop that adds one bs-byte block per step: segs[i] is
\* the block of step i.
Concat(segs, bs) ==
  [j \in 1 .. Len(segs) * bs |-> segs[((j - 1) \div bs) + 1][((j - 1) % bs) + 1]]

\* The loop over the key, for i = 0, bs, 2*bs, ... < len(privateKey): every
\* segment hashed 256 times, in order (everything written to keyHash).
chainAll(bs, privateKey) ==
  IF bs = 0 THEN <<>>
  ELSE Concat([i \in 1 .. Len(privateKey) \div bs |->
                 hashBlock(bs, Segment(privateKey, bs, i - 1), 256)], bs)

PublicKeyFromPrivate(ds, bs, privateKey) ==
  IF Len(privateKey) # PrivateKeySize(ds, bs) THEN Err("InvalidKeySize")
  ELSE Ok(HashSum(ds, chainAll(bs, privateKey)))

(***************************************************************************)
(* Sign (src/wots.go:178-199), given the bytes r the random source        *)
(* yields (Err when it fails)                                              *)
(***************************************************************************)
\* signSegments without the reslicing: every step reads segment 0.
signSegmentsFirst(bs, privateKey, d) ==
  [j \in 1 .. Len(d) * bs |->
     hashBlock(bs, Slice(privateKey, 0, bs), d[((j - 1) \div bs) + 1])[((j - 1) % bs) + 1]]

\* The loop over the digest: the key's leading segment hashed v times and
\* appended, the key resliced past it; step i reads segment i - 1.
signSegments(bs, privateKey, d) ==
  Concat([i \in 1 .. Len(d) |-> hashBlock(bs, Segment(privateKey, bs, i - 1), d[i])], bs)

signBody(ds, bs, privateKey, r, message) ==
  LET md == messageDigest(ds, r, message)
  IN  IF md.st # "ok" THEN md
      ELSE Ok(r \o signSegments(bs, privateKey, md.v))

\* read is the outcome of io.ReadFull(s.rand, r).
Sign(ds, bs, privateKey, read, message) ==
  IF Len(privateKey) # PrivateKeySize(ds, bs) THEN Err("InvalidKeySize")
  ELSE IF read.st # "ok" THEN read
  ELSE signBody(ds, bs, privateKey, read.v, message)

(***************************************************************************)
(* Verify (src/wots.go:205-218, the same in part_002:175-188)              *)
(***************************************************************************)
\* verifySegments with every chain one step short.
verifySegmentsShort(bs, sig, d) ==
  [j \in 1 .. Len(d) * bs |->
     hashBlock(bs, Slice(sig, ((j - 1) \div bs) * bs, ((j - 1) \div bs + 1) * bs),
               255 - d[((j - 1) \div bs) + 1])[((j - 1) % bs) + 1]]

\* The loop over the digest: the signature's leading segment hashed
\* 256 - v times and written to keyHash, the signature resliced past it.
verifySegments(bs, sig, d) ==
  Concat([i \in 1 .. Len(d) |-> hashBlock(bs, Segment(sig, bs, i - 1), 256 - d[i])], bs)

\* Verify refusing only when both sizes are wrong: sig[:digestSize] and
\* sig[:blockSize] are out of range on a short signature.
VerifyBothSizes(ds, bs, publicKey, message, sig) ==
  IF Len(publicKey) # PublicKeySize(ds) /\ Len(sig) # SignatureSize(ds, bs)
  THEN Ok(FALSE)
  ELSE IF Len(sig) < SignatureSize(ds, bs) THEN Panic
  ELSE LET md == messageDigest(ds, Slice(sig, 0, ds), message)
       IN  IF md.st # "ok" THEN md
           ELSE Ok(HashSum(ds, verifySegments(bs, Slice(sig, ds, Len(sig)), md.v))
                     = publicKey)

Verify(ds, bs, publicKey, message, sig) ==
  IF Len(publicKey) # PublicKeySize(ds) \/ Len(sig) # SignatureSize(ds, bs)
  THEN Ok(FALSE)
  ELSE LET md == messageDigest(ds, Slice(sig, 0, ds), message)
       IN  IF md.st # "ok" THEN md
           ELSE Ok(HashSum(ds, verifySegments(bs, Slice(sig, ds, Len(sig)), md.v))
                     = publicKey)

(***************************************************************************)
(* part_002: GenerateKey, BytesToPrivateKey and Sign of the pointer-key    *)
(* API (one hash, blockSize is both sizes)                                 *)
(***************************************************************************)
\* BytesToPrivateKey (part_002:92-100): no length check.  srcKey[i:i+bs]
\* is out of range when the last segment is short (a slice whose capacity
\* is its length); with blockSize 0 the loop over a non-empty key never
\* advances.  The value is the PublicKey field; B is srcKey itself.
BytesToPrivateKey(bs, srcKey) ==
  IF bs = 0 THEN (IF Len(srcKey) > 0 THEN Hang ELSE Ok(HashSum(bs, <<>>)))
  ELSE IF Len(srcKey) % bs # 0 THEN Panic
  ELSE Ok(HashSum(bs, chainAll(bs, srcKey)))

\* Sign (part_002:146-169) up to the signature: B is what k.B holds (empty
\* for nil).  A failed read returns nil; b[:blockSize] is out of range as
\* soon as fewer than blockSize bytes are left.
LegacySign(bs, B, read, message) ==
  IF read.st # "ok" THEN read
  ELSE LET md == messageDigest(bs, read.v, message)
       IN  IF md.st # "ok" THEN md
           ELSE IF Len(B) < Len(md.v) * bs THEN Panic
           ELSE Ok(read.v \o signSegments(bs, B, md.v))

(***************************************************************************)
(* The random source (io.Reader behind io.ReadFull): a reader that yields  *)
(* a stream of bytes without end, or one that has none to give.            *)
(***************************************************************************)
Readers == {"stream", "empty"}

\* Byte number p (from 0) of the stream.
RandByte(p) == (p * 41 + 5) % 256

\* io.ReadFull(s.rand, buf) for a buf of n bytes with pos bytes read so far.
ReadFull(reader, pos, n) ==
  IF n > 0 /\ reader = "empty" THEN Err("RandomSourceFailure")
  ELSE Ok([i \in 1 .. n |-> RandByte(pos + i - 1)])

\* Whether io.ReadFull calls Read at all (not for an empty buf).
ReadCalls(n) == IF n > 0 THEN 1 ELSE 0

(***************************************************************************)
(* Bounds and inputs                                                       *)
(***************************************************************************)
\* Sign calls made on one key.
MaxSigns == 2
\* Messages are up to MaxMsgBlocks digest-size blocks and one byte long.
MaxMsgBlocks == 1
\* Callers pass buffers of at most MaxBufLen bytes.
MaxBufLen == 400

\* A scheme: NewScheme(h) has both sizes h().Size(); NewScheme2(h,
\* chainFunc) has digestSize h().Size() and blockSize chainFunc().Size().
\* part_002 has NewScheme alone.
WotsScheme(ds, bs) == [api |-> "wots", ds |-> ds, bs |-> bs]
LegacyScheme(n) == [api |-> "legacy", ds |-> n, bs |-> n]

\* The schemes whose keys are followed through signing and verifying.
Schemes ==
  {WotsScheme(16, 16), WotsScheme(16, 2), WotsScheme(2, 3), WotsScheme(1, 1),
   WotsScheme(0, 0), LegacyScheme(16), LegacyScheme(2), LegacyScheme(1), LegacyScheme(0)}

\* The schemes whose key generation is followed: hash output sizes on both
\* sides of both ends of 16..128.
KeyGenSchemes ==
  {WotsScheme(0, 0), WotsScheme(8, 8), WotsScheme(15, 1), WotsScheme(16, 1),
   WotsScheme(16, 16), WotsScheme(128, 1), WotsScheme(129, 1),
   LegacyScheme(0), LegacyScheme(8), LegacyScheme(15), LegacyScheme(16), LegacyScheme(129)}

Patterned(len) == [i \in 1 .. len |-> (i * 37 + 11) % 256]

\* Private keys a caller brings: the right length, and wrong ones.
KeyInputs(ds, bs) ==
  LET size == PrivateKeySize(ds, bs)
      lens == {l \in {0, bs, size - bs, size - 1, size, size + 1} :
                 l >= 0 /\ l <= MaxBufLen}
  IN  {Patterned(l) : l \in lens}

Hello == <<104, 101, 108, 108, 111, 32, 119, 111, 114, 108, 100, 33>>

Msg(len) == [i \in 1 .. len |-> (i * 29 + len) % 256]

Messages(ds) ==
  {Hello, Msg(0)}
    \cup {Msg(k * ds) : k \in 1 .. MaxMsgBlocks}
    \cup {Msg(k * ds + 1) : k \in 1 .. MaxMsgBlocks}

\* buf with byte p (from 1) XORed with mask.
Flip(buf, p, mask) == [buf EXCEPT ![p] = Xor(buf[p], mask)]

\* One byte of msg changed, or msg cut at either end.
MsgTampers(msg) ==
  IF Len(msg) = 0 THEN {}
  ELSE {Flip(msg, 1, 1), Flip(msg, Len(msg), 128),
        Slice(msg, 1, Len(msg)), Slice(msg, 0, Len(msg) - 1)}

\* The segments whose bytes are altered: the first, the middle one, the last.
TamperedSegments(ds) == {0, (ds + 1) \div 2, ds + 1}

\* One byte of a full-size signature changed: in the nonce, or the first
\* or last byte of a segment; and sig[1] = 0 as the package's test does.
SigTampers(ds, bs, sg) ==
  IF Len(sg) # SignatureSize(ds, bs) \/ ds < 2 THEN {}
  ELSE ({Flip(sg, 1, 128), Flip(sg, ds, 1), [sg EXCEPT ![2] = 0]}
         \cup (IF bs = 0 THEN {}
               ELSE UNION {{Flip(sg, ds + i * bs + 1, 128), Flip(sg, ds + (i + 1) * bs, 1)} :
                             i \in TamperedSegments(ds)}))
       \ {sg}

\* Buffers of other lengths than buf: cut, extended, empty.
Resized(buf) ==
  {IF Len(buf) > 0 THEN Slice(buf, 0, Len(buf) - 1) ELSE <<7>>, buf \o <<0>>, <<>>} \ {buf}

Capped(n) == IF n > MaxBufLen THEN MaxBufLen ELSE n

\* What a caller passes to Verify, holding public key pk, signature sg and
\* the signed message msg: these, these with one of the three altered, and
\* buffers of zeros.
VerifyInputs(ds, bs, pk, msg, sg) ==
  {<<pk, msg, sg>>}
    \cup {<<x, msg, sg>> : x \in Resized(pk) \cup (IF Len(pk) > 0 THEN {Flip(pk, 1, 1)} ELSE {})}
    \cup {<<pk, x, sg>> : x \in Messages(ds) \cup MsgTampers(msg)}
    \cup {<<pk, msg, x>> : x \in Resized(sg) \cup SigTampers(ds, bs, sg)}
    \cup {<<Zeros(Capped(PublicKeySize(ds))), msg, Zeros(Capped(SignatureSize(ds, bs)))>>,
          <<Zeros(Capped(PublicKeySize(ds))), msg, sg \o <<1>> >>,
          <<pk \o <<1>>, msg, Zeros(Capped(SignatureSize(ds, bs)))>>}

(***************************************************************************)
(* State                                                                   *)
(***************************************************************************)
VARIABLES
  api,        \* "wots" (src/wots.go) or "legacy" (part_002)
  digestSize, \* Scheme.digestSize (part_002: blockSize)
  blockSize,  \* Scheme.blockSize
  reader,     \* Scheme.rand
  randPos,    \* bytes read from the random source so far
  randCalls,  \* reads made of the random source so far
  keyState,   \* "none"; "failed" (creation failed); "held" (the caller's
              \* slice, or k.B, is keyBuf); "nil" (k.B is nil)
  keyBuf,     \* the bytes of the private key's backing array
  keyOrig,    \* keyBuf as it was when the key was made
  publicKey,  \* the public key returned (k.PublicKey); <<>> when none
  sig,        \* the signature Sign last returned; <<>> when none
  signedMsg,  \* the message of sig
  signedKey,  \* keyBuf as it was when the Sign that returned sig was called
  nSign,      \* Sign calls made on the key
  nSigned,    \* Sign calls that returned a signature
  pc,         \* "idle", "call" (a call is running), "hung" (it never returns)
  call,       \* the call running or last returned
  digests,    \* two hash outputs d, d2 that messageDigest extends, or <<>>
  extended,   \* d and d2 with their checksums appended, once computed
  threads,    \* the Sign calls running concurrently on the key, or <<>>
  fed         \* a messageDigest call on a nonce and two messages, or <<>>

vars == <<api, digestSize, blockSize, reader, randPos, randCalls, keyState, keyBuf,
          keyOrig, publicKey, sig, signedMsg, signedKey, nSign, nSigned, pc, call,
          digests, extended, threads, fed>>

scheme == <<api, digestSize, blockSize, reader>>
random == <<randPos, randCalls>>
key    == <<keyState, keyBuf, keyOrig, publicKey>>
signed == <<sig, signedMsg, signedKey, nSigned>>
sums   == <<digests, extended>>
conc   == <<threads>>

\* A call: its name, its arguments, and when it has returned its outcome
\* (st), the bytes returned (out) and Verify's answer (ok); keyIn and
\* calls0 are keyBuf and randCalls as the call found them.
NewCall(op, k, msg, pk, sg) ==
  [op |-> op, key |-> k, msg |-> msg, pk |-> pk, sig |-> sg,
   st |-> "running", out |-> <<>>, ok |-> FALSE, keyIn |-> keyBuf, calls0 |-> randCalls]

Returned(res) == [call EXCEPT !.st = res.st, !.out = IF res.st = "ok" THEN res.v ELSE <<>>]

\* Where control is after a call with outcome st: a call that never
\* returns leaves its caller waiting.
After(st) == IF st = "hang" THEN "hung" ELSE "idle"

\* The state once a scheme of `schemes` is made over a reader.
InitOf(schemes) ==
  /\ \E sch \in schemes :
       /\ api = sch.api
       /\ digestSize = sch.ds
       /\ blockSize = sch.bs
  /\ reader \in Readers
  /\ randPos = 0
  /\ randCalls = 0
  /\ keyState = "none"
  /\ keyBuf = <<>>
  /\ keyOrig = <<>>
  /\ publicKey = <<>>
  /\ sig = <<>>
  /\ signedMsg = <<>>
  /\ signedKey = <<>>
  /\ nSign = 0
  /\ nSigned = 0
  /\ pc = "idle"
  /\ call = [NewCall("none", <<>>, <<>>, <<>>, <<>>) EXCEPT !.st = "ok"]

NoSums == digests = <<>> /\ extended = <<>>
NoThreads == threads = <<>>
NoFeed == fed = <<>>

Init == InitOf(Schemes) /\ NoSums /\ NoThreads /\ NoFeed

(***************************************************************************)
(* The caller: makes the next call on the scheme and its one key.          *)
(***************************************************************************)
Call ==
  /\ pc = "idle"
  /\ pc' = "call"
  /\ UNCHANGED <<fed, sums, conc, scheme, random, key, signed, nSign>>
  /\ \/ /\ keyState = "none"
        /\ call' = NewCall(IF api = "wots" THEN "GenerateKeyPair" ELSE "GenerateKey",
                           <<>>, <<>>, <<>>, <<>>)
     \/ /\ keyState = "none"
        /\ \E k \in KeyInputs(digestSize, blockSize) :
             call' = NewCall(IF api = "wots" THEN "PublicKeyFromPrivate"
                             ELSE "BytesToPrivateKey", k, <<>>, <<>>, <<>>)
     \/ /\ keyState \in {"held", "nil"}
        /\ nSign < MaxSigns
        /\ \E m \in Messages(digestSize) :
             call' = NewCall("Sign", <<>>, m, <<>>, <<>>)
     \/ \E in \in VerifyInputs(digestSize, blockSize, publicKey, signedMsg, sig) :
          call' = NewCall("Verify", <<>>, in[2], in[1], in[3])

(***************************************************************************)
(* The calls.  Each action is one whole call, from entry to return.        *)
(***************************************************************************)
\* GenerateKeyPair taking 16 for too small.
GenerateKeyPairOver16(ds, bs, rd, pos) ==
  IF ds <= 16 \/ ds > 128
  THEN [res |-> Err("InvalidParameter"), key |-> <<>>, reads |-> 0]
  ELSE LET read == ReadFull(rd, pos, PrivateKeySize(ds, bs))
       IN  IF read.st # "ok"
           THEN [res |-> read, key |-> <<>>, reads |-> ReadCalls(PrivateKeySize(ds, bs))]
           ELSE LET pub == PublicKeyFromPrivate(ds, bs, read.v)
                IN  [res |-> pub, key |-> IF pub.st = "ok" THEN read.v ELSE <<>>,
                     reads |-> ReadCalls(PrivateKeySize(ds, bs))]

\* GenerateKeyPair (src/wots.go:101-115): the outcome with the public key,
\* the private key returned, and the reads made.
GenerateKeyPair(ds, bs, rd, pos) ==
  IF ds < 16 \/ ds > 128
  THEN [res |-> Err("InvalidParameter"), key |-> <<>>, reads |-> 0]
  ELSE LET read == ReadFull(rd, pos, PrivateKeySize(ds, bs))
       IN  IF read.st # "ok"
           THEN [res |-> read, key |-> <<>>, reads |-> ReadCalls(PrivateKeySize(ds, bs))]
           ELSE LET pub == PublicKeyFromPrivate(ds, bs, read.v)
                IN  [res |-> pub, key |-> IF pub.st = "ok" THEN read.v ELSE <<>>,
                     reads |-> ReadCalls(PrivateKeySize(ds, bs))]

\* GenerateKey (part_002:78-89).
GenerateKey(bs, rd, pos) ==
  IF bs < 16 \/ bs > 128
  THEN [res |-> Err("InvalidParameter"), key |-> <<>>, reads |-> 0]
  ELSE LET read == ReadFull(rd, pos, (bs + 2) * bs)
       IN  IF read.st # "ok"
           THEN [res |-> read, key |-> <<>>, reads |-> ReadCalls((bs + 2) * bs)]
           ELSE LET pub == BytesToPrivateKey(bs, read.v)
                IN  [res |-> pub, key |-> IF pub.st = "ok" THEN read.v ELSE <<>>,
                     reads |-> ReadCalls((bs + 2) * bs)]

\* The state after a key-making call with outcome g.
KeyMade(g) ==
  /\ call' = [Returned(g.res) EXCEPT !.key = g.key]
  /\ pc' = After(g.res.st)
  /\ randCalls' = randCalls + g.reads
  /\ randPos' = randPos + Len(g.key)
  /\ keyState' = IF g.res.st = "ok" THEN "held" ELSE "failed"
  /\ keyBuf' = g.key
  /\ keyOrig' = g.key
  /\ publicKey' = IF g.res.st = "ok" THEN g.res.v ELSE <<>>
  /\ UNCHANGED <<fed, sums, conc, scheme, signed, nSign>>

DoGenerateKeyPair ==
  /\ pc = "call" /\ call.op = "GenerateKeyPair"
  /\ KeyMade(GenerateKeyPair(digestSize, blockSize, reader, randPos))

DoGenerateKey ==
  /\ pc = "call" /\ call.op = "GenerateKey"
  /\ KeyMade(GenerateKey(blockSize, reader, randPos))

\* PublicKeyFromPrivate(privateKey): the caller keeps privateKey whatever
\* the outcome.
DoPublicKeyFromPrivate ==
  /\ pc = "call" /\ call.op = "PublicKeyFromPrivate"
  /\ LET res == PublicKeyFromPrivate(digestSize, blockSize, call.key)
     IN  /\ call' = Returned(res)
         /\ pc' = After(res.st)
         /\ publicKey' = IF res.st = "ok" THEN res.v ELSE <<>>
  /\ keyState' = "held"
  /\ keyBuf' = call.key
  /\ keyOrig' = call.key
  /\ UNCHANGED <<fed, sums, conc, scheme, random, signed, nSign>>

\* BytesToPrivateKey(srcKey): the key object, when one is returned, holds
\* srcKey itself.
DoBytesToPrivateKey ==
  /\ pc = "call" /\ call.op = "BytesToPrivateKey"
  /\ LET res == BytesToPrivateKey(blockSize, call.key)
     IN  /\ call' = Returned(res)
         /\ pc' = After(res.st)
         /\ publicKey' = IF res.st = "ok" THEN res.v ELSE <<>>
         /\ keyState' = IF res.st = "ok" THEN "held" ELSE "failed"
         /\ keyBuf' = IF res.st = "ok" THEN call.key ELSE <<>>
         /\ keyOrig' = IF res.st = "ok" THEN call.key ELSE <<>>
  /\ UNCHANGED <<fed, sums, conc, scheme, random, signed, nSign>>

\* The state after a Sign call with outcome res that made `reads` reads.
SignDone(res, reads) ==
  /\ call' = Returned(res)
  /\ pc' = After(res.st)
  /\ nSign' = nSign + 1
  /\ randCalls' = randCalls + reads
  /\ IF res.st \in {"ok", "panic", "hang"}
     THEN randPos' = randPos + (IF reads > 0 THEN digestSize ELSE 0)
     ELSE randPos' = randPos
  /\ IF res.st = "ok"
     THEN /\ sig' = res.v
          /\ signedMsg' = call.msg
          /\ signedKey' = keyBuf
          /\ nSigned' = nSigned + 1
     ELSE UNCHANGED signed

\* Sign of src/wots.go: the random source is read once the key has the
\* right length; the key is left as it is.
DoSign ==
  /\ pc = "call" /\ call.op = "Sign" /\ api = "wots"
  /\ LET sized == Len(keyBuf) = PrivateKeySize(digestSize, blockSize)
     IN  SignDone(Sign(digestSize, blockSize, keyBuf,
                       ReadFull(reader, randPos, digestSize), call.msg),
                  IF sized THEN ReadCalls(digestSize) ELSE 0)
  /\ UNCHANGED <<fed, sums, conc, scheme, key>>

\* destroyed starting at index 1 of k.B.
destroyedFrom1(B) == [i \in 1 .. Len(B) |-> IF i = 1 THEN B[i] ELSE 0]

\* for i := range k.B { k.B[i] = 0 } (part_002:164-166)
destroyed(B) == [i \in 1 .. Len(B) |-> 0]

\* k.B left as it is.
stillHeld == "held"

\* k.B = nil (part_002:167)
consumed == "nil"

\* Sign of part_002: the random source is read first; once the signature
\* is made the key bytes are zeroed and k.B is set to nil.
DoLegacySign ==
  /\ pc = "call" /\ call.op = "Sign" /\ api = "legacy"
  /\ LET res == LegacySign(blockSize, IF keyState = "held" THEN keyBuf ELSE <<>>,
                           ReadFull(reader, randPos, blockSize), call.msg)
     IN  /\ SignDone(res, ReadCalls(blockSize))
         /\ IF res.st = "ok"
            THEN /\ keyBuf' = destroyed(keyBuf)
                 /\ keyState' = consumed
            ELSE UNCHANGED <<keyBuf, keyState>>
  /\ UNCHANGED <<fed, sums, conc, scheme, keyOrig, publicKey>>

\* Verify writes to none of its arguments and to nothing of the scheme.
DoVerify ==
  /\ pc = "call" /\ call.op = "Verify"
  /\ LET res == Verify(digestSize, blockSize, call.pk, call.msg, call.sig)
     IN  /\ call' = [call EXCEPT !.st = res.st, !.ok = (res.st = "ok" /\ res.v)]
         /\ pc' = After(res.st)
  /\ UNCHANGED <<fed, sums, conc, scheme, random, key, signed, nSign>>

\* PrivateKeySize, PublicKeySize and SignatureSize, asked of the scheme.
DoSizes ==
  /\ pc = "call" /\ call.op = "Sizes"
  /\ call' = Returned(Ok(<<PrivateKeySize(digestSize, blockSize), PublicKeySize(digestSize),
                           SignatureSize(digestSize, blockSize)>>))
  /\ pc' = "idle"
  /\ UNCHANGED <<fed, sums, conc, scheme, random, key, signed, nSign>>

\* A caller that makes keys and asks sizes, and nothing else.
CallKeyGen ==
  /\ pc = "idle"
  /\ pc' = "call"
  /\ UNCHANGED <<fed, sums, conc, scheme, random, key, signed, nSign>>
  /\ \/ /\ keyState = "none"
        /\ call' = NewCall(IF api = "wots" THEN "GenerateKeyPair" ELSE "GenerateKey",
                           <<>>, <<>>, <<>>, <<>>)
     \/ /\ call.op # "Sizes"
        /\ call' = NewCall("Sizes", <<>>, <<>>, <<>>, <<>>)

Next ==
  \/ Call
  \/ DoGenerateKeyPair
  \/ DoGenerateKey
  \/ DoPublicKeyFromPrivate
  \/ DoBytesToPrivateKey
  \/ DoSign
  \/ DoLegacySign
  \/ DoVerify

Spec == Init /\ [][Next]_vars

\* Key generation alone, over hash output sizes around 16 and 128.
InitKeyGen == InitOf(KeyGenSchemes) /\ NoSums /\ NoThreads /\ NoFeed

NextKeyGen ==
  \/ CallKeyGen
  \/ DoGenerateKeyPair
  \/ DoGenerateKey
  \/ DoSizes

SpecKeyGen == InitKeyGen /\ [][NextKeyGen]_vars

(***************************************************************************)
(* The checksum of messageDigest (src/wots.go:165-170) on pairs of hash    *)
(* outputs: the hash is the caller's, so its outputs are any byte strings  *)
(* of its size.                                                            *)
(***************************************************************************)
\* A byte of a variant differs from the base's by up to MaxStep.
MaxStep == 2

\* Hash output sizes at both ends of 16..128 and between.
ChecksumSizes == {16, 64, 128}

Clamp(v) == IF v < 0 THEN 0 ELSE IF v > 255 THEN 255 ELSE v

\* Hash outputs of n bytes: constant, patterned, and half high half low.
Bases(n) ==
  {[i \in 1 .. n |-> v] : v \in {0, 1, 255}}
    \cup {Patterned(n), [i \in 1 .. n |-> IF 2 * i <= n THEN 255 ELSE 0]}

\* Hash outputs near d: a byte raised or lowered, a byte set to an end of
\* its range, every byte raised, one byte raised and another lowered.
Variants(d) ==
  LET n == Len(d)
      places == {1, (n + 1) \div 2, n}
  IN  ({[d EXCEPT ![p] = Clamp(d[p] + k)] : p \in places, k \in (-MaxStep .. MaxStep) \cup {-255, 255}}
        \cup {[i \in 1 .. n |-> Clamp(d[i] + k)] : k \in 1 .. MaxStep}
        \cup {[d EXCEPT ![1] = Clamp(d[1] + k), ![n] = Clamp(d[n] - k)] : k \in -MaxStep .. MaxStep})
      \ {d}

InitChecksum ==
  /\ InitOf({WotsScheme(n, n) : n \in ChecksumSizes})
  /\ reader = "stream"
  /\ \E d \in Bases(digestSize) :
       \E d2 \in Variants(d) \cup (Bases(digestSize) \ {d}) : digests = <<d, d2>>
  /\ extended = <<>>
  /\ NoThreads
  /\ NoFeed

\* messageDigest's last step (src/wots.go:165-170) on both hash outputs.
DoChecksum ==
  /\ digests # <<>> /\ extended = <<>>
  /\ extended' = <<withChecksum(digests[1]), withChecksum(digests[2])>>
  /\ UNCHANGED <<fed, conc, scheme, random, key, signed, nSign, pc, call, digests>>

NextChecksum == DoChecksum

SpecChecksum == InitChecksum /\ [][NextChecksum]_vars

(***************************************************************************)
(* Sign calls running concurrently on one key.  Neither Sign takes a lock  *)
(* (src/wots.go:178-199, part_002:146-169): each call is a thread whose    *)
(* steps are its accesses to what the calls share, the random source, the  *)
(* key bytes and, in part_002, the field k.B.  A step reads or writes one  *)
(* of these once; the key bytes are read, and zeroed, a segment at a       *)
(* step, so a key is seen partly zeroed segment by segment.                *)
(***************************************************************************)
\* Concurrent Sign calls on the key.
NThreads == 2

Threads == 1 .. NThreads

ConcSchemes == {LegacyScheme(2), WotsScheme(2, 2)}

ConcMessages == {Hello}

\* A thread: where it is in Sign (pc), its message, its nonce r, the
\* digest d, the loop index i, whether its local b is the key's array
\* ("buf") or nil, the signature so far (out), the key bytes it has read
\* (src), and the length n and index j of the zeroing loop.
IdleThread ==
  [pc |-> "idle", msg |-> <<>>, r |-> <<>>, d |-> <<>>, i |-> 0, b |-> "buf",
   out |-> <<>>, src |-> <<>>, n |-> 0, j |-> 0]

\* len(k.B) as `for i := range k.B` finds it (part_002:164).
rangeShort(held, B) == IF held THEN Len(B) - 1 ELSE 0

rangeLen(held, B) == IF held THEN Len(B) ELSE 0

\* A key made from caller-supplied bytes, and no call made on it yet.
InitConc ==
  /\ InitOf(ConcSchemes)
  /\ NoSums
  /\ NoFeed
  /\ threads = [t \in Threads |-> IdleThread]

\* The key-making call that precedes the Sign calls (as DoPublicKeyFromPrivate
\* and DoBytesToPrivateKey, on a key of the right length).
ConcMakeKey ==
  /\ keyState = "none"
  /\ LET k == Patterned(PrivateKeySize(digestSize, blockSize))
         res == IF api = "wots" THEN PublicKeyFromPrivate(digestSize, blockSize, k)
                ELSE BytesToPrivateKey(blockSize, k)
     IN  /\ keyState' = "held"
         /\ keyBuf' = k
         /\ keyOrig' = k
         /\ publicKey' = res.v
  /\ UNCHANGED <<fed, sums, conc, scheme, random, signed, nSign, pc, call>>

Step(t, rec) == threads' = [threads EXCEPT ![t] = rec]

\* A thread calls Sign on the key.
StartSign(t) ==
  /\ keyState # "none"
  /\ threads[t].pc = "idle"
  /\ \E m \in ConcMessages : Step(t, [threads[t] EXCEPT !.pc = "read", !.msg = m])
  /\ UNCHANGED <<fed, sums, scheme, random, key, signed, nSign, pc, call>>

\* io.ReadFull(s.rand, r); in src/wots.go after the length check, and
\* followed by messageDigest, which shares nothing.
ReadNonce(t) ==
  /\ threads[t].pc = "read"
  /\ LET read == ReadFull(reader, randPos, digestSize)
         sized == api = "legacy" \/ Len(keyBuf) = PrivateKeySize(digestSize, blockSize)
     IN  IF ~sized
         THEN /\ Step(t, [threads[t] EXCEPT !.pc = "failed"])
              /\ UNCHANGED random
         ELSE /\ randCalls' = randCalls + ReadCalls(digestSize)
              /\ IF read.st # "ok"
                 THEN /\ Step(t, [threads[t] EXCEPT !.pc = "failed"])
                      /\ UNCHANGED randPos
                 ELSE /\ randPos' = randPos + digestSize
                      /\ Step(t, [threads[t] EXCEPT
                                    !.pc = IF api = "legacy" THEN "load" ELSE "loop",
                                    !.r = read.v, !.out = read.v,
                                    !.d = messageDigest(digestSize, read.v, threads[t].msg).v])
  /\ UNCHANGED <<fed, sums, scheme, key, signed, nSign, pc, call>>

\* b := k.B (part_002:158)
LoadKey(t) ==
  /\ threads[t].pc = "load"
  /\ Step(t, [threads[t] EXCEPT !.pc = "loop",
                                !.b = IF keyState = "held" THEN "buf" ELSE "nil"])
  /\ UNCHANGED <<fed, sums, scheme, random, key, signed, nSign, pc, call>>

\* One step of the loop over the digest: the key's next segment is read
\* as it is now, hashed and appended.  After the last one, src/wots.go
\* returns and part_002 goes on to zero the key.
SignStep(t) ==
  /\ threads[t].pc = "loop"
  /\ LET th == threads[t]
     IN  IF th.b = "nil"
         THEN Step(t, [th EXCEPT !.pc = "panicked"])
         ELSE LET seg == Segment(keyBuf, blockSize, th.i)
              IN  Step(t, [th EXCEPT !.i = th.i + 1,
                                     !.src = th.src \o seg,
                                     !.out = th.out \o hashBlock(blockSize, seg, th.d[th.i + 1]),
                                     !.pc = IF th.i + 1 < Len(th.d) THEN "loop"
                                            ELSE IF api = "legacy" THEN "range" ELSE "done"])
  /\ UNCHANGED <<fed, sums, scheme, random, key, signed, nSign, pc, call>>

\* for i := range k.B: the length is taken once (part_002:164).
RangeKey(t) ==
  /\ threads[t].pc = "range"
  /\ LET n == rangeLen(keyState = "held", keyBuf)
     IN  Step(t, [threads[t] EXCEPT !.pc = IF n > 0 THEN "zero" ELSE "clear", !.j = 0, !.n = n])
  /\ UNCHANGED <<fed, sums, scheme, random, key, signed, nSign, pc, call>>

\* k.B[i] = 0 (part_002:165) for the bytes of one segment: k.B is read
\* again, and indexing nil panics.
ZeroStep(t) ==
  /\ threads[t].pc = "zero"
  /\ LET th == threads[t]
     IN  IF keyState # "held"
         THEN /\ Step(t, [th EXCEPT !.pc = "panicked"])
              /\ UNCHANGED keyBuf
         ELSE /\ keyBuf' = [k \in 1 .. Len(keyBuf) |->
                             IF k > th.j /\ k <= th.j + blockSize /\ k <= th.n
                             THEN 0 ELSE keyBuf[k]]
              /\ Step(t, [th EXCEPT !.j = th.j + blockSize,
                                     !.pc = IF th.j + blockSize < th.n THEN "zero" ELSE "clear"])
  /\ UNCHANGED <<fed, sums, scheme, random, keyState, keyOrig, publicKey, signed, nSign, pc, call>>

\* k.B = nil; return (part_002:167-168)
ClearKey(t) ==
  /\ threads[t].pc = "clear"
  /\ keyState' = consumed
  /\ Step(t, [threads[t] EXCEPT !.pc = "done"])
  /\ UNCHANGED <<fed, sums, scheme, random, keyBuf, keyOrig, publicKey, signed, nSign, pc, call>>

NextConc ==
  \/ ConcMakeKey
  \/ \E t \in Threads :
       \/ StartSign(t)
       \/ ReadNonce(t)
       \/ LoadKey(t)
       \/ SignStep(t)
       \/ RangeKey(t)
       \/ ZeroStep(t)
       \/ ClearKey(t)

SpecConc == InitConc /\ [][NextConc]_vars

(***************************************************************************)
(* messageDigest (src/wots.go:133-171) on a nonce and messages of lengths  *)
(* around the multiples of the nonce's length.                             *)
(***************************************************************************)
\* Messages are up to MaxFeedBlocks blocks and one byte long.
MaxFeedBlocks == 2

\* Nonce lengths: hash output sizes from 0, among them both ends of 16..128.
FeedSizes == {0, 1, 2, 3, 16, 128}

\* Nonces of L bytes: zeros, 0xff, patterned.
Nonces(L) == {[i \in 1 .. L |-> v] : v \in {0, 255}} \cup {Patterned(L)}

\* Messages around the block boundaries, for blocks of L bytes.
FeedMessages(L) ==
  LET lens == {k * L + e : k \in 0 .. MaxFeedBlocks, e \in {-1, 0, 1}} \cap (0 .. MaxBufLen)
  IN  {Msg(l) : l \in lens} \cup {Zeros(l) : l \in lens \cap {L - 1, L, L + 1}}

\* m, and m followed by the byte 0x80, by a zero byte, or by both.
Padlike(m) == {m, m \o <<128>>, m \o <<0>>, m \o <<128, 0>>}

InitDigest ==
  /\ InitOf({WotsScheme(n, n) : n \in FeedSizes})
  /\ reader = "stream"
  /\ NoSums
  /\ NoThreads
  /\ \E r \in Nonces(digestSize) :
       \E m \in FeedMessages(digestSize) :
         \E m2 \in Padlike(m) \cup FeedMessages(digestSize) :
           fed = [r |-> r, msgs |-> <<m, m2>>, st |-> "running", in |-> <<>>, d |-> <<>>]

\* messageDigest(h, r, msg) on each of the two messages: its outcome, what
\* h was given by the time of h.Sum, and what is returned.
DoMessageDigest ==
  /\ fed # <<>> /\ fed.st = "running"
  /\ LET md  == messageDigest(digestSize, fed.r, fed.msgs[1])
         md2 == messageDigest(digestSize, fed.r, fed.msgs[2])
     IN  fed' = [fed EXCEPT
                   !.st = md.st,
                   !.in = IF md.st = "ok"
                          THEN <<digestInput(fed.r, fed.msgs[1]), digestInput(fed.r, fed.msgs[2])>>
                          ELSE <<>>,
                   !.d = IF md.st = "ok" THEN <<md.v, md2.v>> ELSE <<>>]
  /\ UNCHANGED <<sums, conc, scheme, random, key, signed, nSign, pc, call>>

NextDigest == DoMessageDigest

SpecDigest == InitDigest /\ [][NextDigest]_vars

(***************************************************************************)
(* Properties                                                              *)
(***************************************************************************)
\* The call `op` is over: it has returned, panicked, or will never return.
Done(op) == pc # "call" /\ call.op = op

\* The key was made with the length the scheme asks for, and a signature
\* was made from it as it was made.
Signed ==
  /\ nSigned >= 1
  /\ Len(keyOrig) = (digestSize + 2) * blockSize
  /\ signedKey = keyOrig
  /\ Len(publicKey) = digestSize

\* C1: for a scheme whose hash output size is in 16..128, a key of the
\* scheme's private key size, its public key and any message, the signature
\* Sign returns for the message is accepted by Verify with that public key
\* and that message.
C1_RoundTrip ==
  (/\ Done("Verify")
   /\ digestSize >= 16 /\ digestSize <= 128
   /\ Signed
   /\ call.pk = publicKey /\ call.msg = signedMsg /\ call.sig = sig)
    => (call.st = "ok" /\ call.ok)

\* A signature of a message of one full block was accepted.
C1_Witness ==
  /\ Done("Verify") /\ Signed /\ digestSize = 16
  /\ call.pk = publicKey /\ call.msg = signedMsg /\ call.sig = sig
  /\ Len(signedMsg) = digestSize
  /\ call.ok

AllZero(buf) == \A i \in 1 .. Len(buf) : buf[i] = 0

WrongSizes ==
  Len(call.pk) # digestSize \/ Len(call.sig) # (digestSize + 2) * blockSize + digestSize

\* C4 as the specification states it: Verify always returns, for every
\* scheme that was made.
C4_Original == Done("Verify") => (pc = "idle" /\ call.st = "ok")

\* Verify writes to nothing it is given.
VerifyFrame ==
  (pc = "call" /\ call.op = "Verify")
    => (/\ UNCHANGED <<fed, sums, conc, scheme, random, key, signed, nSign>>
        /\ call'.pk = call.pk /\ call'.msg = call.msg /\ call'.sig = call.sig)

\* C4: Verify returns false when the public key or the signature has the
\* wrong size, whatever the scheme; it returns true or false, and neither
\* panics nor runs for ever, when the hash output is two bytes or more; and
\* it changes none of its arguments and nothing of the scheme or the key.
C4_VerifyTotal ==
  /\ [](Done("Verify") =>
          /\ WrongSizes => (pc = "idle" /\ call.st = "ok" /\ ~call.ok)
          /\ digestSize >= 2 => (pc = "idle" /\ call.st = "ok"))
  /\ [][VerifyFrame]_vars

\* Verify has refused a signature of the wrong size under a public key of
\* the right size, and (another state) zeros of the right sizes.
C4_Witness ==
  /\ Done("Verify") /\ digestSize >= 2 /\ call.st = "ok" /\ ~call.ok
  /\ Len(call.pk) = digestSize /\ Len(call.pk) > 0
  /\ Len(call.sig) # (digestSize + 2) * blockSize + digestSize

\* a and b have one length and differ in exactly one byte.
OneByteChanged(a, b) ==
  /\ Len(a) = Len(b)
  /\ Cardinality({i \in 1 .. Len(a) : a[i] # b[i]}) = 1

\* a is b with bytes cut off one end.
Cut(a, b) ==
  /\ Len(a) < Len(b)
  /\ \/ a = SubSeq(b, 1, Len(a))
     \/ a = SubSeq(b, Len(b) - Len(a) + 1, Len(b))

\* The hash of output size `size` maps the different inputs x and y to
\* one output.
HashCollides(size, x, y) == x # y /\ HashSum(size, x) = HashSum(size, y)

\* The Verify call at hand met a collision: of the message hash, between
\* what the signer and what the verifier wrote to it; or of the key hash,
\* between the chain ends of the private key and what the verifier
\* computed from the signature.
CollisionMet ==
  LET r  == Slice(sig, 0, digestSize)
      r2 == Slice(call.sig, 0, digestSize)
  IN  \/ HashCollides(digestSize, digestInput(r, signedMsg), digestInput(r2, call.msg))
      \/ HashCollides(digestSize, chainAll(blockSize, keyOrig),
                      verifySegments(blockSize, Slice(call.sig, digestSize, Len(call.sig)),
                                     messageDigest(digestSize, r2, call.msg).v))

\* The message or the signature passed to Verify (not both) is the signed
\* one with one byte changed or with bytes cut off.
MsgTampered == call.sig = sig /\ (OneByteChanged(call.msg, signedMsg) \/ Cut(call.msg, signedMsg))
SigTampered == call.msg = signedMsg /\ (OneByteChanged(call.sig, sig) \/ Cut(call.sig, sig))

\* C5: given a key of the right size, its public key, a message and the
\* signature Sign returned for it, Verify returns false when one byte of
\* the message or of the signature is changed or the message or signature
\* is cut short, unless the message hash or the key hash collides on the
\* inputs of the two computations.
C5_TamperRejected ==
  (/\ Done("Verify") /\ Signed /\ call.pk = publicKey
   /\ MsgTampered \/ SigTampered)
    => (/\ pc = "idle" /\ call.st = "ok"
        /\ call.ok => CollisionMet)

\* Verify has computed the chains of a signature with a byte changed in
\* its last segment, and has refused it.
C5_Witness ==
  /\ Done("Verify") /\ Signed /\ call.pk = publicKey /\ digestSize = 16
  /\ call.msg = signedMsg /\ OneByteChanged(call.sig, sig)
  /\ call.sig[Len(sig)] # sig[Len(sig)]
  /\ call.st = "ok" /\ ~call.ok

\* C6: GenerateKeyPair (GenerateKey in part_002) fails with
\* InvalidParameter exactly when the hash output size is below 16 or above
\* 128; it then returns no key and has not read the random source; making
\* the scheme and asking its sizes never fails.
C6_KeyGenRange ==
  /\ (Done("GenerateKeyPair") \/ Done("GenerateKey")) =>
       /\ call.st = "InvalidParameter" <=> (digestSize < 16 \/ digestSize > 128)
       /\ call.st = "InvalidParameter" =>
            /\ call.key = <<>> /\ call.out = <<>>
            /\ keyBuf = <<>> /\ publicKey = <<>>
            /\ randCalls = call.calls0 /\ randPos = 0
       /\ call.st \in {"InvalidParameter", "RandomSourceFailure", "ok"}
       /\ call.st = "ok" =>
            /\ Len(call.key) = (digestSize + 2) * blockSize
            /\ Len(call.out) = digestSize
  /\ Done("Sizes") =>
       /\ pc = "idle" /\ call.st = "ok"
       /\ call.out = <<(digestSize + 2) * blockSize, digestSize,
                       (digestSize + 2) * blockSize + digestSize>>

\* Key generation was refused for a hash output of 129 bytes over a reader
\* that would have yielded.
C6_Witness ==
  /\ Done("GenerateKeyPair") /\ digestSize = 129 /\ reader = "stream"
  /\ call.st = "InvalidParameter" /\ randCalls = 0

\* Keys were generated for a hash output of 128 bytes.
C6_WitnessAccepted ==
  /\ Done("GenerateKeyPair") /\ digestSize = 128 /\ call.st = "ok"

\* C7 as the specification states it, for schemes whose hash output is 16
\* bytes or more: deriving the public key from, or signing with, a key
\* whose length is not the private key size fails with InvalidKeySize and
\* reads nothing from the random source.
C7_Original ==
  digestSize >= 16 =>
    /\ ((Done("PublicKeyFromPrivate") \/ Done("BytesToPrivateKey"))
          /\ Len(call.key) # (digestSize + 2) * blockSize)
         => (call.st = "InvalidKeySize" /\ call.out = <<>> /\ randCalls = call.calls0)
    /\ (Done("Sign") /\ call.keyIn = keyOrig /\ keyState = "held"
          /\ Len(call.keyIn) # (digestSize + 2) * blockSize)
         => (call.st = "InvalidKeySize" /\ call.out = <<>> /\ randCalls = call.calls0)

\* C8: a signature Sign returns is SignatureSize bytes: the digestSize
\* bytes read from the random source by this call, then for each i in
\* 0 .. digestSize + 1 a blockSize-byte segment that is segment i of the
\* private key hashed d[i] times by the chain hash, d being the digest of
\* the nonce and the message with its checksum.
C8_SignatureLayout ==
  (Done("Sign") /\ call.st = "ok") =>
    LET n == digestSize
        r == [i \in 1 .. n |-> call.out[i]]
        d == messageDigest(n, r, call.msg).v
    IN  /\ Len(call.out) = n + (n + 2) * blockSize
        /\ r = [i \in 1 .. n |-> RandByte(randPos - n + i - 1)]
        /\ Len(d) = n + 2
        /\ \A i \in 0 .. n + 1 :
             [j \in 1 .. blockSize |-> call.out[n + i * blockSize + j]]
               = hashBlock(blockSize, [j \in 1 .. blockSize |-> call.keyIn[i * blockSize + j]],
                           d[i + 1])

\* A signature was returned whose digest has a byte of zero (a segment
\* that is the key's) and different bytes (segments hashed unequally).
C8_Witness ==
  /\ Done("Sign") /\ call.st = "ok" /\ digestSize = 16 /\ blockSize = 2
  /\ LET d == messageDigest(digestSize, Slice(call.out, 0, digestSize), call.msg).v
     IN  /\ \E i, j \in 1 .. Len(d) : d[i] # d[j] /\ d[i] > 0 /\ d[j] > 0
         /\ SubSeq(call.out, digestSize + 1, digestSize + blockSize)
              # SubSeq(call.keyIn, 1, blockSize)

RECURSIVE SumOf(_, _, _)
\* d[lo] + ... + d[hi]
SumOf(d, lo, hi) ==
  IF lo > hi THEN 0
  ELSE IF lo = hi THEN d[lo]
  ELSE SumOf(d, lo, (lo + hi) \div 2) + SumOf(d, (lo + hi) \div 2 + 1, hi)

\* The sum of 256 - d[i] over the bytes of d, as a number.
StepsLeft(d) == 256 * Len(d) - SumOf(d, 1, Len(d))

\* e is d followed by the two big-endian bytes of StepsLeft(d).
Extends(e, d) ==
  /\ Len(e) = Len(d) + 2
  /\ SubSeq(e, 1, Len(d)) = d
  /\ e[Len(d) + 1] \in Byte /\ e[Len(d) + 2] \in Byte
  /\ e[Len(d) + 1] * 256 + e[Len(d) + 2] = StepsLeft(d)

\* C9: for hash outputs d # d2 of n bytes, n in 16..128, and e, e2 these
\* with their checksums appended, the checksum is the sum of 256 - d[i]
\* itself (16 bits hold it), and some position of e2 is below that
\* position of e (and some position of e below that of e2).
C9_ChecksumProtects ==
  (extended # <<>> /\ digestSize >= 16 /\ digestSize <= 128) =>
    LET d == digests[1]  d2 == digests[2]
        e == extended[1] e2 == extended[2]
    IN  /\ Extends(e, d) /\ Extends(e2, d2)
        /\ d # d2 => /\ \E i \in 1 .. digestSize + 2 : e2[i] < e[i]
                     /\ \E i \in 1 .. digestSize + 2 : e[i] < e2[i]

\* Of two hash outputs of 128 bytes, the second is nowhere below the
\* first; the checksum's high byte is what is lower, its low byte being
\* higher.
C9_Witness ==
  /\ extended # <<>> /\ digestSize = 128
  /\ digests[1] # digests[2]
  /\ \A i \in 1 .. digestSize : digests[2][i] >= digests[1][i]
  /\ extended[2][digestSize + 1] < extended[1][digestSize + 1]
  /\ extended[2][digestSize + 2] > extended[1][digestSize + 2]

\* The threads whose Sign has returned a signature.
Returners == {t \in DOMAIN threads : threads[t].pc = "done"}

\* C10 as the specification states it: of the Sign calls running on one
\* key at most one returns a signature, a returned signature is computed
\* from the key bytes as they were, and once a Sign has returned the
\* original key bytes can no longer be read.
C10_Original ==
  /\ Cardinality(Returners) <= 1
  /\ \A t \in Returners : threads[t].src = keyOrig
  /\ Returners # {} => (keyState = "nil" /\ AllZero(keyBuf))

\* C10: Sign takes no lock, and under any interleaving of Sign calls on
\* one key this much holds.  In part_002, once any Sign has returned a
\* signature every byte of the key is zero and k.B is nil, and every key
\* byte a Sign reads is the original byte or zero.  In src/wots.go the key
\* bytes never change and every signature is computed from them as they
\* were.  A returned signature has SignatureSize bytes.
C10_Unsynchronised ==
  /\ (api = "legacy" /\ Returners # {}) => (keyState = "nil" /\ AllZero(keyBuf))
  /\ \A t \in DOMAIN threads :
       /\ \A k \in 1 .. Len(threads[t].src) : threads[t].src[k] \in {keyOrig[k], 0}
       /\ t \in Returners =>
            Len(threads[t].out) = digestSize + (digestSize + 2) * blockSize
  /\ (api = "wots" /\ keyState # "none") =>
       /\ keyBuf = keyOrig /\ keyState = "held"
       /\ \A t \in Returners : threads[t].src = keyOrig

\* Two Sign calls on one part_002 key have both returned a signature, one
\* of them computed from key bytes of which some were already zeroed.
C10_Witness ==
  /\ api = "legacy" /\ Cardinality(Returners) = 2
  /\ \E t \in Returners :
       /\ threads[t].src # keyOrig
       /\ ~AllZero(threads[t].src)
  /\ AllZero(keyBuf) /\ ~AllZero(keyOrig)

\* m followed by 0x80 and zeros up to the next multiple of L bytes (a
\* whole block of them when m ends on a block boundary).
PaddedMsg(m, L) ==
  [k \in 1 .. (Len(m) \div L + 1) * L |->
     IF k <= Len(m) THEN m[k] ELSE IF k = Len(m) + 1 THEN 128 ELSE 0]

\* in is r, then the blocks of the padded m each XORed with r, then the
\* two big-endian bytes of r's length.
FeedOf(in, r, m) ==
  LET L  == Len(r)
      pm == PaddedMsg(m, L)
  IN  /\ Len(in) = L + (Len(m) \div L) * L + L + 2
      /\ \A k \in 1 .. L : in[k] = r[k]
      /\ \A k \in 1 .. Len(pm) : in[L + k] = Xor(pm[k], r[((k - 1) % L) + 1])
      /\ in[Len(in) - 1] = L \div 256 /\ in[Len(in)] = L % 256

====
